---- MODULE Spec2Model ----
(***************************************************************************)
(* A model of three pieces of MPAS-Analysis:                               *)
(*   - ClimatologyMapMLD.__init__ (ocean/climatology_map_mld.py), the      *)
(*     constructor that builds the remap and plot subtasks, and the run    *)
(*     phase of the subtasks it builds;                                    *)
(*   - RemapObservedMLDClimatology.build_observational_dataset;            *)
(*   - write_image_xml, _provenance_command and _generate_thumbnails       *)
(*     (shared/html/image_xml.py).                                         *)
(* Each piece has its own specification over the shared variables; the     *)
(* variables of the other pieces stay at their idle values.                *)
(***************************************************************************)
EXTENDS Integers, Sequences, FiniteSets, TLC

(* ----------------------------- bounds --------------------------------- *)
MaxSeasons == 2
MaxGrids == 2
RunMaxSeasons == 2
RunMaxGrids == 1

SeasonNames == {"JFM", "ANN"}
GridNames == {"latlon", "antarctic"}

SeqsUpTo(S, n) == UNION {[1..k -> S] : k \in 0..n}

(* ---------------------------- variables ------------------------------- *)
VARIABLES
    \* ClimatologyMapMLD.__init__: arguments, locals, position, result
    cfgSeasons,                  \* config option 'seasons' of the task's section
    cfgComparisonGrids,          \* config option 'comparisonGrids'
    mpasRefClimatologyTask,      \* "None" or "refTask"
    pc,                          \* position in the constructor
    seasons,                     \* local: seasons
    comparisonGridNames,         \* local: comparisonGridNames
    remapClimatologySubtask,     \* local: 0 (unbound/None) or an object id
    remapObservationsSubtask,
    remapRefClimatologySubtask,
    outFileLabel,                \* local: outFileLabel
    gi, si,                      \* loop positions (comparison grid, season)
    constructed,                 \* every subtask object constructed, in order;
                                 \* an object's id is its index here
    subtasks,                    \* self.subtasks: ids passed to add_subtask
    raised,                      \* "none" or the exception the constructor raised
    \* run phase of the constructed subtasks
    running, succeeded, failed,  \* sets of object ids
    outputs,                     \* output files written by plot subtasks
    \* _generate_thumbnails: argument, locals, position, files saved
    thPc,                        \* position in _generate_thumbnails
    imageSize,                   \* image.size of the opened image, <<w, h>>
    orientation,                 \* local: orientation
    thumbnailHeight,             \* local: thumbnailHeight
    aspectThumbnail,             \* size of thumbnails/<image> as saved
    resized,                     \* size of the image resized for the fixed crop
    cropped,                     \* which side the crop keeps: "top" or "left"
    fixedThumbnail,              \* size of thumbnails/fixed_<image> as saved
    \* build_observational_dataset: the file, the local dsObs, position
    obsPc,                       \* position in build_observational_dataset
    obsFile,                     \* the data set stored in the observation file
    dsObs,                       \* local: dsObs
    \* write_image_xml and _provenance_command
    xmlPc,                       \* position in write_image_xml
    argv,                        \* sys.argv of the running process
    history,                     \* argument history: [isNone, text]
    generateHTML,                \* config option html/generate
    kwargs,                      \* argument kwargs: the additional elements
    plotSize,                    \* size of the plot image, <<w, h>>
    root,                        \* the XML element tree being built
    gitResult,                   \* how the git describe lookup went
    xmlRaised,                   \* "none" or the exception that left the call
    imageCopied,                 \* the image was copied to the html tree
    thumbnailsSaved,             \* both thumbnails were saved
    xmlWrites,                   \* XML files written by the current call
    xmlFile,                     \* content of the XML file on disk
    callLog,                     \* command lines of the calls so far, oldest first
    firstHistory,                \* the history argument of the first call
    \* plot_1D: arguments, locals, position, what was drawn
    p1Pc,                        \* position in plot_1D
    xArrays,                     \* argument xArrays: "None" or "array" per series
    legendText,                  \* argument legendText: [isNone, labels]
    title,                       \* argument title: [isNone, text]
    maxTitleLength,              \* argument maxTitleLength
    dsIndex,                     \* loop position, counted from 1
    plotLegend,                  \* local: plotLegend
    plotted,                     \* the label of each plt.plot call, in order
    legendDrawn,                 \* plt.legend() was called
    titleDrawn                   \* the text given to plt.title: [isNone, text]

taskVars == <<cfgSeasons, cfgComparisonGrids, mpasRefClimatologyTask, pc, seasons,
              comparisonGridNames, remapClimatologySubtask, remapObservationsSubtask,
              remapRefClimatologySubtask, outFileLabel, gi, si, constructed,
              subtasks, raised>>
runVars == <<running, succeeded, failed, outputs>>

thumbVars == <<thPc, imageSize, orientation, thumbnailHeight, aspectThumbnail,
               resized, cropped, fixedThumbnail>>
obsVars == <<obsPc, obsFile, dsObs>>

provVars == <<xmlPc, argv, history, generateHTML, kwargs, plotSize, root, gitResult,
              xmlRaised, imageCopied, thumbnailsSaved, xmlWrites, xmlFile,
              callLog, firstHistory>>

plotVars == <<p1Pc, xArrays, legendText, title, maxTitleLength, dsIndex,
              plotLegend, plotted, legendDrawn, titleDrawn>>

vars == <<taskVars, runVars, thumbVars, obsVars, provVars, plotVars>>

(* ------------------ ClimatologyMapMLD.__init__ ------------------------ *)
None == 0

fieldName == "mld"

\* len(seasons) == 0 / len(comparisonGridNames) == 0
EmptyListNever(list) == FALSE
EmptyList(list) == Len(list) = 0

\* a remap subtask object (RemapMpasClimatologySubtask,
\* RemapObservedMLDClimatology, RemapMpasReferenceClimatologySubtask)
RemapSubtask(cls) ==
    [cls |-> cls, season |-> "all", comparisonGridName |-> "all",
     remapMpas |-> None, remapObs |-> None, remapRef |-> None,
     outFileLabel |-> "n/a"]

\* PlotClimatologyMapSubtask(self, season, comparisonGridName,
\*     remapClimatologySubtask, remapObservationsSubtask,
\*     remapRefClimatologySubtask) followed by set_plot_info(outFileLabel=...)
PlotSubtaskSwapped(season, grid, main, obs, ref, label) ==
    [cls |-> "PlotClimatologyMapSubtask", season |-> grid,
     comparisonGridName |-> grid,
     remapMpas |-> main, remapObs |-> obs, remapRef |-> ref,
     outFileLabel |-> label]
PlotSubtaskNoMain(season, grid, main, obs, ref, label) ==
    [cls |-> "PlotClimatologyMapSubtask", season |-> season,
     comparisonGridName |-> grid,
     remapMpas |-> None, remapObs |-> obs, remapRef |-> ref,
     outFileLabel |-> label]
PlotSubtaskAfterPrevious(season, grid, main, obs, ref, label) ==
    [cls |-> "PlotClimatologyMapSubtask", season |-> season,
     comparisonGridName |-> grid,
     remapMpas |-> main,
     remapObs |-> IF obs = None THEN None ELSE Len(constructed),
     remapRef |-> IF ref = None THEN None ELSE Len(constructed),
     outFileLabel |-> label]
PlotSubtask(season, grid, main, obs, ref, label) ==
    [cls |-> "PlotClimatologyMapSubtask", season |-> season,
     comparisonGridName |-> grid,
     remapMpas |-> main, remapObs |-> obs, remapRef |-> ref,
     outFileLabel |-> label]

\* if mpasRefClimatologyTask is None: ... else: ...
ObservationModeAlways(refTask) == TRUE
ObservationMode(refTask) == refTask = "None"

\* the nested for loops are over when the last season of the last grid
\* has been handled
LoopDoneInnerOnly(g, s, grids, seas) == s = Len(seas)
LoopDone(g, s, grids, seas) == g = Len(grids) /\ s = Len(seas)

\* self.add_subtask(subtask): the subtask becomes a child of the task
add_subtask(children, id) == Append(children, id)

ReadSeasons ==
    /\ pc = "start"
    /\ seasons' = cfgSeasons
    /\ IF EmptyList(cfgSeasons)
       THEN pc' = "raised" /\ raised' = "ValueError"
       ELSE pc' = "grids" /\ UNCHANGED raised
    /\ UNCHANGED <<cfgSeasons, cfgComparisonGrids, mpasRefClimatologyTask,
                   comparisonGridNames, remapClimatologySubtask,
                   remapObservationsSubtask, remapRefClimatologySubtask,
                   outFileLabel, gi, si, constructed, subtasks, runVars, thumbVars, obsVars, provVars, plotVars>>

ReadComparisonGrids ==
    /\ pc = "grids"
    /\ comparisonGridNames' = cfgComparisonGrids
    /\ IF EmptyList(cfgComparisonGrids)
       THEN pc' = "raised" /\ raised' = "ValueError"
       ELSE pc' = "remap" /\ UNCHANGED raised
    /\ UNCHANGED <<cfgSeasons, cfgComparisonGrids, mpasRefClimatologyTask,
                   seasons, remapClimatologySubtask,
                   remapObservationsSubtask, remapRefClimatologySubtask,
                   outFileLabel, gi, si, constructed, subtasks, runVars, thumbVars, obsVars, provVars, plotVars>>

ConstructRemap ==
    /\ pc = "remap"
    /\ constructed' = Append(constructed, RemapSubtask("RemapMpasClimatologySubtask"))
    /\ remapClimatologySubtask' = Len(constructed) + 1
    /\ pc' = "comparison"
    /\ UNCHANGED <<cfgSeasons, cfgComparisonGrids, mpasRefClimatologyTask,
                   seasons, comparisonGridNames,
                   remapObservationsSubtask, remapRefClimatologySubtask,
                   outFileLabel, gi, si, subtasks, raised, runVars, thumbVars, obsVars, provVars, plotVars>>

ConstructComparison ==
    /\ pc = "comparison"
    /\ IF ObservationMode(mpasRefClimatologyTask)
       THEN /\ constructed' =
                 Append(constructed, RemapSubtask("RemapObservedMLDClimatology"))
            /\ remapObservationsSubtask' = Len(constructed) + 1
            /\ subtasks' = add_subtask(subtasks, Len(constructed) + 1)
            /\ remapRefClimatologySubtask' = None
            /\ outFileLabel' = "mldHolteTalleyARGO"
       ELSE /\ constructed' =
                 Append(constructed,
                        RemapSubtask("RemapMpasReferenceClimatologySubtask"))
            /\ remapRefClimatologySubtask' = Len(constructed) + 1
            /\ remapObservationsSubtask' = None
            /\ outFileLabel' = "mld"
            /\ UNCHANGED subtasks
    /\ pc' = "loop" /\ gi' = 1 /\ si' = 1
    /\ UNCHANGED <<cfgSeasons, cfgComparisonGrids, mpasRefClimatologyTask,
                   seasons, comparisonGridNames, remapClimatologySubtask,
                   raised, runVars, thumbVars, obsVars, provVars, plotVars>>

\* one pass through the body of the inner loop
AddPlotSubtask ==
    /\ pc = "loop"
    /\ gi <= Len(comparisonGridNames) /\ si <= Len(seasons)
    /\ constructed' =
         Append(constructed,
                PlotSubtask(seasons[si], comparisonGridNames[gi],
                            remapClimatologySubtask, remapObservationsSubtask,
                            remapRefClimatologySubtask, outFileLabel))
    /\ subtasks' = add_subtask(subtasks, Len(constructed) + 1)
    /\ IF LoopDone(gi, si, comparisonGridNames, seasons)
       THEN pc' = "done" /\ UNCHANGED <<gi, si>>
       ELSE /\ pc' = "loop"
            /\ IF si < Len(seasons)
               THEN si' = si + 1 /\ gi' = gi
               ELSE si' = 1 /\ gi' = gi + 1
    /\ UNCHANGED <<cfgSeasons, cfgComparisonGrids, mpasRefClimatologyTask,
                   seasons, comparisonGridNames, remapClimatologySubtask,
                   remapObservationsSubtask, remapRefClimatologySubtask,
                   outFileLabel, raised, runVars, thumbVars, obsVars, provVars, plotVars>>

TaskLocalsInit ==
    /\ pc = "start"
    /\ seasons = <<>> /\ comparisonGridNames = <<>>
    /\ remapClimatologySubtask = None
    /\ remapObservationsSubtask = None
    /\ remapRefClimatologySubtask = None
    /\ outFileLabel = "unbound"
    /\ gi = 0 /\ si = 0
    /\ constructed = <<>> /\ subtasks = <<>>
    /\ raised = "none"

RunIdle ==
    /\ running = {} /\ succeeded = {} /\ failed = {} /\ outputs = {}

NoSize == <<0, 0>>

ThumbLocalsInit ==
    /\ orientation = "unbound" /\ thumbnailHeight = 0
    /\ aspectThumbnail = NoSize /\ resized = NoSize
    /\ cropped = "unbound" /\ fixedThumbnail = NoSize

ThumbIdle ==
    /\ thPc = "idle" /\ imageSize = NoSize
    /\ ThumbLocalsInit

\* a data set: the sizes of its dimensions and its variables, each with
\* its dimensions, its values, its element type and whether it is a
\* coordinate of the data set
EmptyDataset == [dims |-> <<>>, vars |-> <<>>]

ObsIdle ==
    /\ obsPc = "idle" /\ obsFile = EmptyDataset /\ dsObs = EmptyDataset

\* a string is a sequence of tokens; history=None is [isNone |-> TRUE]
NoHistory == [isNone |-> TRUE, text |-> <<>>]

ProvCallInit ==
    /\ root = <<>> /\ gitResult = "unknown" /\ xmlRaised = "none"
    /\ imageCopied = FALSE /\ thumbnailsSaved = FALSE /\ xmlWrites = 0

ProvIdle ==
    /\ xmlPc = "idle" /\ argv = <<>> /\ history = NoHistory
    /\ generateHTML = FALSE /\ kwargs = <<>> /\ plotSize = NoSize
    /\ ProvCallInit
    /\ xmlFile = <<>> /\ callLog = <<>> /\ firstHistory = NoHistory

\* a string argument that may be None; a string is a sequence of characters
NoneText == [isNone |-> TRUE, text |-> <<>>]
Str(text) == [isNone |-> FALSE, text |-> text]

Plot1DLocalsInit ==
    /\ dsIndex = 0 /\ plotLegend = FALSE /\ plotted = <<>>
    /\ legendDrawn = FALSE /\ titleDrawn = NoneText

PlotIdle ==
    /\ p1Pc = "idle" /\ xArrays = <<>>
    /\ legendText = [isNone |-> TRUE, labels |-> <<>>]
    /\ title = NoneText /\ maxTitleLength = 0
    /\ Plot1DLocalsInit

Init ==
    /\ cfgSeasons \in SeqsUpTo(SeasonNames, MaxSeasons)
    /\ cfgComparisonGrids \in SeqsUpTo(GridNames, MaxGrids)
    /\ mpasRefClimatologyTask \in {"None", "refTask"}
    /\ TaskLocalsInit
    /\ RunIdle
    /\ ThumbIdle
    /\ ObsIdle
    /\ ProvIdle
    /\ PlotIdle

Next ==
    \/ ReadSeasons
    \/ ReadComparisonGrids
    \/ ConstructRemap
    \/ ConstructComparison
    \/ AddPlotSubtask

Spec == Init /\ [][Next]_vars

(* -------------------- run phase of the subtasks ----------------------- *)
\* the subtasks a subtask runs after: a plot subtask runs after each remap
\* subtask it was given, a remap subtask after none of the task's subtasks
Deps(id) ==
    {constructed[id].remapMpas, constructed[id].remapObs,
     constructed[id].remapRef} \ {None}

Finished == succeeded \cup failed

\* a subtask may start once every subtask it runs after has succeeded;
\* execution is one subtask at a time
CanStart(id) ==
    /\ id \notin running \cup Finished
    /\ running = {}
    /\ Deps(id) \subseteq succeeded

IsPlot(id) == constructed[id].cls = "PlotClimatologyMapSubtask"

\* what names a plot subtask's output file: field name, season, grid
OutputIdentity(id) ==
    <<fieldName, constructed[id].season, constructed[id].comparisonGridName>>

StartSubtask(id) ==
    /\ pc = "done"
    /\ CanStart(id)
    /\ running' = running \cup {id}
    /\ UNCHANGED <<taskVars, succeeded, failed, outputs, thumbVars, obsVars, provVars, plotVars>>

SubtaskSucceeds(id) ==
    /\ id \in running
    /\ running' = running \ {id}
    /\ succeeded' = succeeded \cup {id}
    /\ outputs' = IF IsPlot(id)
                  THEN outputs \cup {[by |-> id, path |-> OutputIdentity(id)]}
                  ELSE outputs
    /\ UNCHANGED <<taskVars, failed, thumbVars, obsVars, provVars, plotVars>>

SubtaskFails(id) ==
    /\ id \in running
    /\ running' = running \ {id}
    /\ failed' = failed \cup {id}
    /\ UNCHANGED <<taskVars, succeeded, outputs, thumbVars, obsVars, provVars, plotVars>>

Ids == 1..Len(constructed)

InitRun ==
    /\ cfgSeasons \in SeqsUpTo(SeasonNames, RunMaxSeasons)
    /\ cfgComparisonGrids \in SeqsUpTo(GridNames, RunMaxGrids)
    /\ mpasRefClimatologyTask \in {"None", "refTask"}
    /\ TaskLocalsInit
    /\ RunIdle
    /\ ThumbIdle
    /\ ObsIdle
    /\ ProvIdle
    /\ PlotIdle

NextRun ==
    \/ Next
    \/ \E id \in Ids : StartSubtask(id)
    \/ \E id \in Ids : SubtaskSucceeds(id)
    \/ \E id \in Ids : SubtaskFails(id)

SpecRun == InitRun /\ [][NextRun]_vars

(* ------------------- properties of the constructor -------------------- *)
\* the registered children that are plot subtasks, in registration order
PlotChildren ==
    LET isPlot(id) == constructed[id].cls = "PlotClimatologyMapSubtask"
    IN SelectSeq(subtasks, isPlot)

ConstructedOf(cls) == {id \in 1..Len(constructed) : constructed[id].cls = cls}

NoRepeats(list) ==
    \A i, j \in 1..Len(list) : list[i] = list[j] => i = j

\* C1: with an empty 'seasons' or an empty 'comparisonGrids' option the
\* constructor fails with its configuration error (the ValueError raised on
\* the option), and no subtask has been constructed or registered by then:
\* once the empty option has been read the constructor is in its raised
\* state with nothing constructed and no children.
C1_EmptyOptionFails ==
    /\ (Len(cfgSeasons) = 0 /\ pc # "start") =>
          /\ pc = "raised" /\ raised = "ValueError"
          /\ constructed = <<>> /\ subtasks = <<>>
    /\ (Len(cfgComparisonGrids) = 0 /\ pc \notin {"start", "grids"}) =>
          /\ pc = "raised" /\ raised = "ValueError"
          /\ constructed = <<>> /\ subtasks = <<>>
    /\ raised = "none" => pc # "raised"

C1_Witness ==
    /\ pc = "raised" /\ raised = "ValueError"
    /\ Len(cfgSeasons) > 0 /\ Len(cfgComparisonGrids) = 0

\* C2: a constructor that finished with N comparison grids and M seasons
\* registered exactly N*M plot subtasks, the one at position (g-1)*M + s
\* bound to grid g and season s, all given the one primary remap subtask.
C2_PlotPerPair ==
    pc = "done" =>
        LET N == Len(cfgComparisonGrids)
            M == Len(cfgSeasons)
        IN /\ N > 0 /\ M > 0
           /\ Len(PlotChildren) = N * M
           /\ Cardinality(ConstructedOf("PlotClimatologyMapSubtask")) = N * M
           /\ Cardinality(ConstructedOf("RemapMpasClimatologySubtask")) = 1
           /\ \A g \in 1..N : \A s \in 1..M :
                LET p == constructed[PlotChildren[(g - 1) * M + s]]
                IN /\ p.comparisonGridName = cfgComparisonGrids[g]
                   /\ p.season = cfgSeasons[s]
                   /\ p.remapMpas \in ConstructedOf("RemapMpasClimatologySubtask")

C2_Witness ==
    /\ pc = "done"
    /\ Len(cfgComparisonGrids) = 2 /\ Len(cfgSeasons) = 2
    /\ Len(PlotChildren) = 4

\* C3: the comparison mode is exclusive. With a reference-run task no
\* observation remap subtask is ever constructed, without one no
\* reference-run remap subtask is; once the comparison subtask exists there
\* is exactly one, and every plot subtask constructed holds exactly one
\* non-None comparison remap subtask, which is that one.
C3_ExclusiveComparison ==
    LET obsIds == ConstructedOf("RemapObservedMLDClimatology")
        refIds == ConstructedOf("RemapMpasReferenceClimatologySubtask")
    IN /\ mpasRefClimatologyTask # "None" => obsIds = {}
       /\ mpasRefClimatologyTask = "None" => refIds = {}
       /\ pc \in {"loop", "done"} => Cardinality(obsIds \cup refIds) = 1
       /\ \A id \in ConstructedOf("PlotClimatologyMapSubtask") :
            LET p == constructed[id]
            IN /\ (p.remapObs # None) # (p.remapRef # None)
               /\ p.remapObs # None => p.remapObs \in obsIds
               /\ p.remapRef # None => p.remapRef \in refIds

C3_Witness ==
    /\ pc = "done" /\ mpasRefClimatologyTask = "refTask"
    /\ \E id \in ConstructedOf("PlotClimatologyMapSubtask") :
         constructed[id].remapRef # None /\ constructed[id].remapObs = None

\* C10 as stated: for every pair of lists the constructor accepts, no two
\* registered plot subtasks have the same (field name, season, grid).
C10_DistinctForAnyLists ==
    pc = "done" =>
        \A i, j \in 1..Len(PlotChildren) :
            OutputIdentity(PlotChildren[i]) = OutputIdentity(PlotChildren[j])
                => i = j

\* C10 amended: when neither list repeats an entry, no two registered plot
\* subtasks have the same (field name, season, grid).
C10_DistinctWithoutRepeats ==
    (pc = "done" /\ NoRepeats(cfgSeasons) /\ NoRepeats(cfgComparisonGrids)) =>
        \A i, j \in 1..Len(PlotChildren) :
            OutputIdentity(PlotChildren[i]) = OutputIdentity(PlotChildren[j])
                => i = j

C10_Witness ==
    /\ pc = "done"
    /\ NoRepeats(cfgSeasons) /\ NoRepeats(cfgComparisonGrids)
    /\ Len(cfgSeasons) = 2 /\ Len(cfgComparisonGrids) = 2
    /\ Len(PlotChildren) = 4

(* -------------------- properties of the run phase --------------------- *)
Started == running \cup Finished

\* the remap subtasks the constructor built for the plots: the primary
\* one and the comparison one
TaskRemaps ==
    {remapClimatologySubtask, remapObservationsSubtask,
     remapRefClimatologySubtask} \ {None}

\* C4: a plot subtask that has started (is running, or has succeeded or
\* failed) started after the task's primary remap subtask and its
\* comparison remap subtask had both succeeded; none starts while one of
\* them is unfinished or failed.
C4_PlotAfterRemaps ==
    \A id \in Ids :
        (IsPlot(id) /\ id \in Started) =>
            /\ Cardinality(TaskRemaps) = 2
            /\ TaskRemaps \subseteq succeeded

C4_Witness ==
    \E id \in Ids :
        /\ IsPlot(id) /\ id \in running
        /\ TaskRemaps \subseteq succeeded

\* C9: a plot subtask that fails changes nothing but its own state: it
\* writes no output and every other subtask keeps its state; and whatever
\* has failed among its siblings, a plot subtask that has not started and
\* whose remap subtasks succeeded can start as soon as nothing is running.
C9_FailureIsolated ==
    /\ [](\A id \in Ids :
            /\ (IsPlot(id) /\ id \in failed) =>
                   \A o \in outputs : o.by # id
            /\ (IsPlot(id) /\ id \notin Started /\ running = {}
                  /\ pc = "done" /\ TaskRemaps \subseteq succeeded) =>
                   ENABLED StartSubtask(id))
    /\ [][\A id \in Ids :
            (IsPlot(id) /\ id \in failed' /\ id \notin failed) =>
                /\ outputs' = outputs
                /\ succeeded' = succeeded
                /\ running' = running \ {id}
                /\ failed' = failed \cup {id}]_vars

C9_Witness ==
    \E p, q \in Ids :
        /\ p # q /\ IsPlot(p) /\ IsPlot(q)
        /\ p \in failed /\ q \in succeeded
        /\ \E o \in outputs : o.by = q

(* ----------------------- _generate_thumbnails ------------------------- *)
MaxDim == 16
MaxDimIndex == 30
DimStep == 37

\* widths and heights of the images handed in: every small size, and
\* sizes spread up to well past the fixed thumbnail size
ImageDims == (1..MaxDim) \cup {k * DimStep : k \in 1..MaxDimIndex}

fixedWidth == 480
fixedHeight == 360
vertThumbnailHeight == 480
horizThumbnailHeight == 180

\* int(dim/factor + 0.5) for factor = num/den, so dim/factor = dim*den/num.
\* The floating-point quotient is exact enough to decide the rounding
\* everywhere but on an exact tie k + 0.5, where it may land on either side.
ScaledDim(dim, num, den) ==
    LET q == (2 * dim * den + num) \div (2 * num)
    IN IF (2 * dim * den) % (2 * num) = num THEN {q - 1, q} ELSE {q}

\* factor = min(widthFactor, heightFactor) is widthFactor = w/fixedWidth
\* when it is the smaller one, else heightFactor = h/fixedHeight
FactorIsWidthFactorMax(w, h) == w * fixedHeight >= h * fixedWidth
FactorIsWidthFactor(w, h) == w * fixedHeight <= h * fixedWidth

\* if widthFactor <= heightFactor: crop out the top; else: the left side
CropOutTheTop(w, h) == w * fixedHeight <= h * fixedWidth

\* thumbnail.crop([0, 0, fixedWidth, fixedHeight])
cropBox == <<0, 0, fixedWidth, fixedHeight>>

\* the size of the image Image.crop returns is the size of the box
CropSize(box) == <<box[3] - box[1], box[4] - box[2]>>

\* if imageSize[0] < imageSize[1]: 'vert' else 'horiz'
Orientation(size) == IF size[1] < size[2] THEN "vert" ELSE "horiz"

\* image = Image.open(...); imageSize = image.size; orientation
ThOpen ==
    /\ thPc = "open"
    /\ orientation' = Orientation(imageSize)
    /\ thumbnailHeight' = IF imageSize[1] < imageSize[2]
                          THEN vertThumbnailHeight ELSE horizThumbnailHeight
    /\ thPc' = "aspect"
    /\ UNCHANGED <<imageSize, aspectThumbnail, resized, cropped, fixedThumbnail,
                   taskVars, runVars, obsVars, provVars, plotVars>>

\* the thumbnail with the image's aspect ratio: factor = h/thumbnailHeight;
\* Image.resize refuses a size with an empty side
ThAspectThumbnail ==
    /\ thPc = "aspect"
    /\ \E tw \in ScaledDim(imageSize[1], imageSize[2], thumbnailHeight) :
       \E th \in ScaledDim(imageSize[2], imageSize[2], thumbnailHeight) :
          IF tw < 1 \/ th < 1
          THEN thPc' = "raised" /\ UNCHANGED aspectThumbnail
          ELSE thPc' = "resize" /\ aspectThumbnail' = <<tw, th>>
    /\ UNCHANGED <<imageSize, orientation, thumbnailHeight, resized, cropped,
                   fixedThumbnail, taskVars, runVars, obsVars, provVars, plotVars>>

\* the resize for the fixed-size thumbnail
ThResizeFixed ==
    /\ thPc = "resize"
    /\ LET w == imageSize[1]
           h == imageSize[2]
           num == IF FactorIsWidthFactor(w, h) THEN w ELSE h
           den == IF FactorIsWidthFactor(w, h) THEN fixedWidth ELSE fixedHeight
       IN \E rw \in ScaledDim(w, num, den) : \E rh \in ScaledDim(h, num, den) :
             IF rw < 1 \/ rh < 1
             THEN thPc' = "raised" /\ UNCHANGED resized
             ELSE thPc' = "crop" /\ resized' = <<rw, rh>>
    /\ UNCHANGED <<imageSize, orientation, thumbnailHeight, aspectThumbnail,
                   cropped, fixedThumbnail, taskVars, runVars, obsVars, provVars, plotVars>>

\* the crop, the save of thumbnails/fixed_<image>, and the return
ThCropAndSave ==
    /\ thPc = "crop"
    /\ cropped' = IF CropOutTheTop(imageSize[1], imageSize[2])
                  THEN "top" ELSE "left"
    /\ fixedThumbnail' = CropSize(cropBox)
    /\ thPc' = "done"
    /\ UNCHANGED <<imageSize, orientation, thumbnailHeight, aspectThumbnail,
                   resized, taskVars, runVars, obsVars, provVars, plotVars>>

TaskIdle ==
    /\ cfgSeasons = <<>> /\ cfgComparisonGrids = <<>>
    /\ mpasRefClimatologyTask = "None"
    /\ TaskLocalsInit

InitThumb ==
    /\ imageSize \in ImageDims \X ImageDims
    /\ thPc = "open"
    /\ ThumbLocalsInit
    /\ TaskIdle
    /\ RunIdle
    /\ ObsIdle
    /\ ProvIdle
    /\ PlotIdle

NextThumb ==
    \/ ThOpen
    \/ ThAspectThumbnail
    \/ ThResizeFixed
    \/ ThCropAndSave

SpecThumb == InitThumb /\ [][NextThumb]_vars

(* ------------------ properties of the thumbnails ---------------------- *)
WiderThanFixed == imageSize[1] * fixedHeight > imageSize[2] * fixedWidth
TallerThanFixed == imageSize[1] * fixedHeight < imageSize[2] * fixedWidth

\* C5 as stated: an image wider than 480:360 is cropped from the top, a
\* taller one from the left, and the saved fixed thumbnail is 480x360.
C5_WiderTopTallerLeft ==
    thPc = "done" =>
        /\ WiderThanFixed => cropped = "top"
        /\ TallerThanFixed => cropped = "left"
        /\ fixedThumbnail = <<480, 360>>

\* C5 amended: an image wider than 480:360 is cropped from the left (it is
\* resized to the full height of 360 and at least 480 wide, and the crop
\* keeps its leftmost 480 columns); a taller one is cropped from the top
\* (resized to the full width of 480 and at least 360 high, the crop keeps
\* its top 360 rows); in both cases the saved fixed thumbnail is 480x360.
C5_WiderLeftTallerTop ==
    thPc = "done" =>
        /\ WiderThanFixed =>
              /\ cropped = "left"
              /\ resized[2] = 360 /\ resized[1] >= 480
        /\ TallerThanFixed =>
              /\ cropped = "top"
              /\ resized[1] = 480 /\ resized[2] >= 360
        /\ cropBox[1] = 0 /\ cropBox[2] = 0
        /\ fixedThumbnail = <<480, 360>>

C5_Witness ==
    /\ thPc = "done" /\ WiderThanFixed
    /\ cropped = "left" /\ resized[1] > 480
    /\ fixedThumbnail = <<480, 360>>

(* ------------ RemapObservedMLDClimatology.build_observational_dataset -- *)
MaxMonths == 12

Range(first, n) == [i \in 1..n |-> first + i - 1]

Variable(dims, values, dtype, coord) ==
    [dims |-> dims, values |-> values, dtype |-> dtype, coord |-> coord]

\* an observation file: the variables month, lat, lon on the dimensions
\* iMONTH, iLAT, iLON, the field mld_dt_mean (unless the file lacks it) and
\* the integer month index iMONTH (unless the file stores no index)
RawFile(n, monthFirst, monthType, hasIndex, indexFirst, hasField) ==
    [dims |-> ("iMONTH" :> n) @@ ("iLAT" :> 2) @@ ("iLON" :> 2),
     vars |->
        ("month" :> Variable(<<"iMONTH">>, Range(monthFirst, n), monthType, FALSE))
        @@ ("lat" :> Variable(<<"iLAT">>, <<-45, 45>>, "float64", FALSE))
        @@ ("lon" :> Variable(<<"iLON">>, <<90, 270>>, "float64", FALSE))
        @@ (IF hasField
            THEN "mld_dt_mean" :>
                   Variable(<<"iMONTH", "iLAT", "iLON">>, Range(50, n), "float64", FALSE)
            ELSE <<>>)
        @@ (IF hasIndex
            THEN "iMONTH" :> Variable(<<"iMONTH">>, Range(indexFirst, n), "int32", TRUE)
            ELSE <<>>)]

ObsFiles ==
    {RawFile(n, monthFirst, monthType, hasIndex, indexFirst, hasField) :
        n \in 1..MaxMonths, monthFirst \in {0, 1},
        monthType \in {"float64", "int32"}, hasIndex \in BOOLEAN,
        indexFirst \in {0, 1}, hasField \in BOOLEAN}

\* the variable whose values 'dsObs.iMONTH.values += 1' increments
IncrementedMonth == "month"
IncrementedVariable == "iMONTH"

Increment(ds, name) ==
    IF name \in DOMAIN ds.vars
    THEN [ds EXCEPT !.vars[name].values = [i \in DOMAIN @ |-> @[i] + 1]]
    ELSE ds

\* Dataset.rename(names): every name must be a variable or a dimension
CanRename(ds, names) ==
    DOMAIN names \subseteq (DOMAIN ds.vars \cup DOMAIN ds.dims)

Rename(ds, names) ==
    LET new(n) == IF n \in DOMAIN names THEN names[n] ELSE n
        oldVar(n2) == CHOOSE n \in DOMAIN ds.vars : new(n) = n2
        oldDim(d2) == CHOOSE d \in DOMAIN ds.dims : new(d) = d2
    IN [dims |-> [d2 \in {new(d) : d \in DOMAIN ds.dims} |-> ds.dims[oldDim(d2)]],
        vars |-> [n2 \in {new(n) : n \in DOMAIN ds.vars} |->
                    [ds.vars[oldVar(n2)] EXCEPT
                        !.dims = [i \in DOMAIN @ |-> new(@[i])]]]]

variableNames ==
    ("month" :> "calmonth") @@ ("lat" :> "latCoord") @@ ("lon" :> "lonCoord")
    @@ ("mld_dt_mean" :> "mld")
dimensionNames ==
    ("iMONTH" :> "Time") @@ ("iLAT" :> "lat") @@ ("iLON" :> "lon")

\* dsObs.coords[name] = ...: the variable becomes a coordinate
SetCoord(ds, name, var) ==
    [ds EXCEPT !.vars = (name :> [var EXCEPT !.coord = TRUE]) @@ @]

\* np.array(x, int) on whole-number values: the element type becomes int
AsInt(var) == [var EXCEPT !.dtype = "int"]

\* mpas_xarray.subset_variables(ds, variableList): the data variables not
\* in the list are dropped
subset_variables(ds, variableList) ==
    [ds EXCEPT !.vars =
        [n \in {m \in DOMAIN @ : @[m].coord \/ m \in variableList} |-> @[n]]]

ObsOpen ==
    /\ obsPc = "open"
    /\ dsObs' = obsFile
    /\ obsPc' = "increment"
    /\ UNCHANGED <<obsFile, taskVars, runVars, thumbVars, provVars, plotVars>>

ObsIncrement ==
    /\ obsPc = "increment"
    /\ dsObs' = Increment(dsObs, IncrementedVariable)
    /\ obsPc' = "renameVariables"
    /\ UNCHANGED <<obsFile, taskVars, runVars, thumbVars, provVars, plotVars>>

ObsRenameVariables ==
    /\ obsPc = "renameVariables"
    /\ IF CanRename(dsObs, variableNames)
       THEN dsObs' = Rename(dsObs, variableNames) /\ obsPc' = "renameDimensions"
       ELSE obsPc' = "raised" /\ UNCHANGED dsObs
    /\ UNCHANGED <<obsFile, taskVars, runVars, thumbVars, provVars, plotVars>>

ObsRenameDimensions ==
    /\ obsPc = "renameDimensions"
    /\ IF CanRename(dsObs, dimensionNames)
       THEN dsObs' = Rename(dsObs, dimensionNames) /\ obsPc' = "coords"
       ELSE obsPc' = "raised" /\ UNCHANGED dsObs
    /\ UNCHANGED <<obsFile, taskVars, runVars, thumbVars, provVars, plotVars>>

\* coords['lat'], coords['lon'], coords['Time'], coords['month']
ObsSetCoordinates ==
    /\ obsPc = "coords"
    /\ LET ds1 == SetCoord(dsObs, "lat", dsObs.vars["latCoord"])
           ds2 == SetCoord(ds1, "lon", ds1.vars["lonCoord"])
           ds3 == SetCoord(ds2, "Time", ds2.vars["calmonth"])
           ds4 == SetCoord(ds3, "month",
                           AsInt(Variable(<<"Time">>, ds3.vars["calmonth"].values,
                                          ds3.vars["calmonth"].dtype, TRUE)))
       IN dsObs' = ds4
    /\ obsPc' = "year"
    /\ UNCHANGED <<obsFile, taskVars, runVars, thumbVars, provVars, plotVars>>

\* coords['year'] = ('Time', np.ones(dsObs.dims['Time'], int))
ObsSetYear ==
    /\ obsPc = "year"
    /\ dsObs' = SetCoord(dsObs, "year",
                         Variable(<<"Time">>, [i \in 1..dsObs.dims["Time"] |-> 1],
                                  "int", TRUE))
    /\ obsPc' = "subset"
    /\ UNCHANGED <<obsFile, taskVars, runVars, thumbVars, provVars, plotVars>>

ObsSubset ==
    /\ obsPc = "subset"
    /\ dsObs' = subset_variables(dsObs, {"mld", "month"})
    /\ obsPc' = "done"
    /\ UNCHANGED <<obsFile, taskVars, runVars, thumbVars, provVars, plotVars>>

InitObs ==
    /\ obsFile \in ObsFiles
    /\ obsPc = "open"
    /\ dsObs = EmptyDataset
    /\ TaskIdle
    /\ RunIdle
    /\ ThumbIdle
    /\ ProvIdle
    /\ PlotIdle

NextObs ==
    \/ ObsOpen
    \/ ObsIncrement
    \/ ObsRenameVariables
    \/ ObsRenameDimensions
    \/ ObsSetCoordinates
    \/ ObsSetYear
    \/ ObsSubset

SpecObs == InitObs /\ [][NextObs]_vars

(* -------------- properties of the observational data set -------------- *)
DataVariables(ds) == {n \in DOMAIN ds.vars : ~ds.vars[n].coord}

RawMonthFromOne ==
    /\ "month" \in DOMAIN obsFile.vars
    /\ obsFile.vars["month"].values = Range(1, obsFile.dims["iMONTH"])

MaxCalls == 3

CommandLines ==
    {<<"mpas_analysis", "config.cfg">>, <<"run_analysis.py", "--generate", "all">>}
PriorHistories ==
    {NoHistory, [isNone |-> FALSE, text |-> <<"ncclimo -s 1 -e 5">>],
     [isNone |-> FALSE, text |-> <<>>]}
PlotSizes == {<<1200, 900>>, <<600, 1500>>}
AdditionalElements ==
    {<<>>, <<[tag |-> "season", text |-> <<"JFM">>]>>}

placeholder == <<"git hash unavailable">>

\* shutil.copyfile returns, or raises and the call is left
AfterCopyErrorPassed(copied) == "thumbnails"
AfterCopy(copied) == IF copied THEN "thumbnails" ELSE "raised"

RECURSIVE Join(_, _)
\* sep.join(strings)
Join(sep, strings) ==
    IF Len(strings) = 0 THEN <<>>
    ELSE IF Len(strings) = 1 THEN <<strings[1]>>
    ELSE <<strings[1], sep>> \o Join(sep, Tail(strings))

RECURSIVE Strip(_, _)
\* text.strip(ch)
Strip(text, ch) ==
    IF Len(text) = 0 THEN text
    ELSE IF Head(text) = ch THEN Strip(Tail(text), ch)
    ELSE IF text[Len(text)] = ch THEN Strip(SubSeq(text, 1, Len(text) - 1), ch)
    ELSE text

Element(tag, text) == [tag |-> tag, text |-> text]

HasElement(tree, tag) == \E i \in DOMAIN tree : tree[i].tag = tag
Text(tree, tag) == tree[CHOOSE i \in DOMAIN tree : tree[i].tag = tag].text

\* history = call if history is None else call + '; ' + history
ProvenanceHistoryAppended(call, prior) ==
    IF prior.isNone THEN call ELSE prior.text \o <<"; ">> \o call
ProvenanceHistory(call, prior) ==
    IF prior.isNone THEN call ELSE call \o <<"; ">> \o prior.text

\* the elements added before the html branch
XmlBuildRoot ==
    /\ xmlPc = "start"
    /\ root' = <<Element("imageFileName", <<"plot", ".png">>),
                 Element("componentName", <<"Ocean">>),
                 Element("componentSubdirectory", <<"ocean">>),
                 Element("galleryGroup", <<"Mixed-Layer Depth">>),
                 Element("groupLink", <<"mld">>),
                 Element("thumbnailDescription", <<>>),
                 Element("imageDescription", <<>>),
                 Element("imageCaption", <<>>)>>
    /\ xmlPc' = IF generateHTML THEN "copy" ELSE "provenance"
    /\ UNCHANGED <<argv, history, generateHTML, plotSize, gitResult, xmlRaised,
                   imageCopied, thumbnailsSaved, xmlWrites, xmlFile, callLog,
                   firstHistory, kwargs, taskVars, runVars, thumbVars, obsVars, plotVars>>

\* os.makedirs (an OSError is passed over), then shutil.copyfile
XmlCopyImage ==
    /\ xmlPc = "copy"
    /\ \/ imageCopied' = TRUE /\ xmlPc' = AfterCopy(TRUE) /\ UNCHANGED xmlRaised
       \/ xmlRaised' = "IOError" /\ xmlPc' = AfterCopy(FALSE) /\ UNCHANGED imageCopied
    /\ UNCHANGED <<argv, history, generateHTML, plotSize, root, gitResult,
                   thumbnailsSaved, xmlWrites, xmlFile, callLog,
                   firstHistory, kwargs, taskVars, runVars, thumbVars, obsVars, plotVars>>

\* imageSize, orientation = _generate_thumbnails(...), then the two elements
XmlThumbnails ==
    /\ xmlPc = "thumbnails"
    /\ \/ /\ thumbnailsSaved' = TRUE
          /\ root' = root \o
                <<Element("imageSize",
                          <<ToString(plotSize[1]), "x", ToString(plotSize[2])>>),
                  Element("orientation", <<Orientation(plotSize)>>)>>
          /\ xmlPc' = "provenance"
          /\ UNCHANGED xmlRaised
       \/ /\ xmlRaised' = "IOError" /\ xmlPc' = "raised"
          /\ UNCHANGED <<thumbnailsSaved, root>>
    /\ UNCHANGED <<argv, history, generateHTML, plotSize, gitResult,
                   imageCopied, xmlWrites, xmlFile, callLog,
                   firstHistory, kwargs, taskVars, runVars, thumbVars, obsVars, plotVars>>

\* _provenance_command up to the host element
XmlProvenance ==
    /\ xmlPc = "provenance"
    /\ LET call == Join(" ", argv)
       IN root' = root \o
            <<Element("history", ProvenanceHistory(call, history)),
              Element("cwd", <<"/work">>),
              Element("user", <<"user">>),
              Element("curtime", <<"01/01/18 00:00">>),
              Element("host", <<"host">>)>>
    /\ xmlPc' = "git"
    /\ UNCHANGED <<argv, history, generateHTML, plotSize, gitResult, xmlRaised,
                   imageCopied, thumbnailsSaved, xmlWrites, xmlFile, callLog,
                   firstHistory, kwargs, taskVars, runVars, thumbVars, obsVars, plotVars>>

\* subprocess.Popen(['git', 'describe', ...]), communicate, the githash
\* element. Popen raises OSError when the executable cannot be run.
XmlGitHash ==
    /\ xmlPc = "git"
    /\ \E result \in {"ok", "nonzero", "unavailable"} :
        /\ gitResult' = result
        /\ IF result = "unavailable"
           THEN xmlRaised' = "OSError" /\ xmlPc' = "raised" /\ UNCHANGED root
           ELSE /\ root' = Append(root,
                      Element("githash",
                              IF result = "ok"
                              THEN Strip(<<"v1.0-3-gabc1234", "\n">>, "\n")
                              ELSE placeholder))
                /\ xmlPc' = "write"
                /\ UNCHANGED xmlRaised
    /\ UNCHANGED <<argv, history, generateHTML, plotSize,
                   imageCopied, thumbnailsSaved, xmlWrites, xmlFile, callLog,
                   firstHistory, kwargs, taskVars, runVars, thumbVars, obsVars, plotVars>>

\* the kwargs elements and tree.write(xmlFileName, ...)
XmlWrite ==
    /\ xmlPc = "write"
    /\ root' = root \o kwargs
    /\ xmlFile' = root'
    /\ xmlWrites' = xmlWrites + 1
    /\ xmlPc' = "done"
    /\ UNCHANGED <<argv, history, generateHTML, plotSize, gitResult,
                   xmlRaised, imageCopied, thumbnailsSaved, callLog,
                   firstHistory, kwargs, taskVars, runVars, thumbVars, obsVars, plotVars>>

\* a later run of the analysis calls write_image_xml with the history of
\* the record the call before wrote
XmlNextCall ==
    /\ xmlPc = "done"
    /\ Len(callLog) < MaxCalls
    /\ argv' \in CommandLines
    /\ generateHTML' \in BOOLEAN
    /\ history' = [isNone |-> FALSE, text |-> Text(xmlFile, "history")]
    /\ callLog' = Append(callLog, Join(" ", argv'))
    /\ xmlPc' = "start"
    /\ root' = <<>> /\ gitResult' = "unknown" /\ xmlRaised' = "none"
    /\ imageCopied' = FALSE /\ thumbnailsSaved' = FALSE /\ xmlWrites' = 0
    /\ UNCHANGED <<plotSize, xmlFile, firstHistory, kwargs,
                   taskVars, runVars, thumbVars, obsVars, plotVars>>

InitProv ==
    /\ argv \in CommandLines
    /\ history \in PriorHistories
    /\ firstHistory = history
    /\ generateHTML \in BOOLEAN
    /\ kwargs \in AdditionalElements
    /\ plotSize \in PlotSizes
    /\ callLog = <<Join(" ", argv)>>
    /\ xmlPc = "start"
    /\ xmlFile = <<>>
    /\ ProvCallInit
    /\ TaskIdle
    /\ RunIdle
    /\ ThumbIdle
    /\ ObsIdle
    /\ PlotIdle

NextProv ==
    \/ XmlBuildRoot
    \/ XmlCopyImage
    \/ XmlThumbnails
    \/ XmlProvenance
    \/ XmlGitHash
    \/ XmlWrite
    \/ XmlNextCall

SpecProv == InitProv /\ [][NextProv]_vars

(* ---------------- properties of the provenance record ----------------- *)
\* C7: however the git describe lookup fails (a non-zero exit status, or
\* no git executable to run), the call does not raise, githash is the
\* placeholder 'git hash unavailable' and the XML file is written.
C7_LookupFailureSwallowed ==
    (gitResult \in {"nonzero", "unavailable"} /\ xmlPc \in {"done", "raised"}) =>
        /\ xmlPc = "done" /\ xmlRaised = "none"
        /\ xmlWrites = 1
        /\ HasElement(xmlFile, "githash")
        /\ Text(xmlFile, "githash") = <<"git hash unavailable">>

RECURSIVE MostRecentFirst(_)
\* the command lines of a call log, the latest first, each followed by '; '
MostRecentFirst(log) ==
    IF Len(log) = 0 THEN <<>>
    ELSE log[Len(log)] \o <<"; ">> \o MostRecentFirst(SubSeq(log, 1, Len(log) - 1))

\* C8: the history of a written record starts with the current command
\* line; alone when the first call had no history, else followed by '; '
\* and the history it was given; after k chained calls it is the k command
\* lines, latest first, ahead of the first call's history.
C8_HistoryPrepended ==
    xmlPc = "done" =>
        LET call == Join(" ", argv)
            written == Text(xmlFile, "history")
        IN /\ SubSeq(written, 1, Len(call)) = call
           /\ history.isNone => written = call
           /\ ~history.isNone => written = call \o <<"; ">> \o history.text
           /\ callLog[Len(callLog)] = call
           /\ written =
                IF firstHistory.isNone
                THEN MostRecentFirst(SubSeq(callLog, 2, Len(callLog)))
                        \o callLog[1]
                ELSE MostRecentFirst(callLog) \o firstHistory.text

C8_Witness ==
    /\ xmlPc = "done" /\ Len(callLog) = 3
    /\ ~firstHistory.isNone /\ Len(firstHistory.text) > 0
    /\ callLog[1] # callLog[3]

(* ------------------------------ plot_1D ------------------------------- *)
MaxSeries == 2
MaxTextLen == 4
MaxLimit == 3

Letters == <<"a", "b", "c", "d", "e", "f", "g", "h">>

\* the titles and labels handed in: texts of every length up to MaxTextLen
Texts == {SubSeq(Letters, 1, n) : n \in 0..MaxTextLen}
OptionalTexts == {NoneText} \cup {Str(t) : t \in Texts}

ellipsis == <<".", ".", ".">>

\* limit_title(title, max_title_length): a title longer than the limit is
\* cut to the limit and an ellipsis put after it
limit_title(text, limit) ==
    IF Len(text) > limit THEN SubSeq(text, 1, limit) \o ellipsis ELSE text

\* label = None if legendText is None, else legendText[dsIndex], limited
\* when it is not None
SeriesLabelUnlimited(legend, i, limit) ==
    IF legend.isNone THEN NoneText ELSE legend.labels[i]
SeriesLabel(legend, i, limit) ==
    IF legend.isNone THEN NoneText
    ELSE IF legend.labels[i].isNone THEN NoneText
    ELSE Str(limit_title(legend.labels[i].text, limit))

\* title = limit_title(title, max_title_length=maxTitleLength)
TitleText(given, limit) == Str(limit_title(given.text, limit))

\* defaultFontSize, dpi, plt.figure
P1Figure ==
    /\ p1Pc = "figure"
    /\ plotLegend' = FALSE
    /\ dsIndex' = 1
    /\ p1Pc' = "series"
    /\ UNCHANGED <<xArrays, legendText, title, maxTitleLength, plotted,
                   legendDrawn, titleDrawn,
                   taskVars, runVars, thumbVars, obsVars, provVars>>

\* one pass through the loop over the series
P1Series ==
    /\ p1Pc = "series"
    /\ dsIndex <= Len(xArrays)
    /\ IF xArrays[dsIndex] = "None"
       THEN UNCHANGED <<plotLegend, plotted>>
       ELSE /\ plotLegend' = IF legendText.isNone THEN plotLegend ELSE TRUE
            /\ plotted' = Append(plotted,
                                 SeriesLabel(legendText, dsIndex, maxTitleLength))
    /\ dsIndex' = dsIndex + 1
    /\ UNCHANGED <<p1Pc, xArrays, legendText, title, maxTitleLength,
                   legendDrawn, titleDrawn,
                   taskVars, runVars, thumbVars, obsVars, provVars>>

\* plt.grid, plt.axhline, and plt.legend() if plotLegend and len(xArrays) > 1
P1Legend ==
    /\ p1Pc = "series"
    /\ dsIndex > Len(xArrays)
    /\ legendDrawn' = (plotLegend /\ Len(xArrays) > 1)
    /\ p1Pc' = "title"
    /\ UNCHANGED <<xArrays, legendText, title, maxTitleLength, dsIndex,
                   plotLegend, plotted, titleDrawn,
                   taskVars, runVars, thumbVars, obsVars, provVars>>

\* the title, then axis labels, limits, savefig and plt.close
P1Title ==
    /\ p1Pc = "title"
    /\ titleDrawn' = IF title.isNone THEN NoneText
                     ELSE TitleText(title, maxTitleLength)
    /\ p1Pc' = "done"
    /\ UNCHANGED <<xArrays, legendText, title, maxTitleLength, dsIndex,
                   plotLegend, plotted, legendDrawn,
                   taskVars, runVars, thumbVars, obsVars, provVars>>

InitPlot ==
    /\ \E n \in 0..MaxSeries :
          /\ xArrays \in [1..n -> {"None", "array"}]
          /\ legendText \in
                {[isNone |-> TRUE, labels |-> <<>>]} \cup
                {[isNone |-> FALSE, labels |-> l] : l \in [1..n -> OptionalTexts]}
    /\ title \in OptionalTexts
    /\ maxTitleLength \in 0..MaxLimit
    /\ p1Pc = "figure"
    /\ Plot1DLocalsInit
    /\ TaskIdle
    /\ RunIdle
    /\ ThumbIdle
    /\ ObsIdle
    /\ ProvIdle

NextPlot ==
    \/ P1Figure
    \/ P1Series
    \/ P1Legend
    \/ P1Title

SpecPlot == InitPlot /\ [][NextPlot]_vars

(* ----------------------- properties of plot_1D ------------------------ *)
\* what is drawn for a given text under the limit: the text itself when
\* it is no longer than the limit, else its first `limit` characters
\* followed by a text that ends with an ellipsis
IsLimited(given, drawn, limit) ==
    IF Len(given) <= limit
    THEN drawn = given
    ELSE /\ Len(drawn) >= limit + 3
         /\ SubSeq(drawn, 1, limit) = SubSeq(given, 1, limit)
         /\ SubSeq(drawn, Len(drawn) - 2, Len(drawn)) = <<".", ".", ".">>
         /\ drawn # given

\* the series that are drawn: those whose xArray is not None
DrawnSeries ==
    LET isArray(i) == xArrays[i] # "None"
    IN SelectSeq([i \in 1..Len(xArrays) |-> i], isArray)

\* C11: when plot_1D is done, the title drawn (if one was given) and the
\* label of every plotted series (if it has one) are the given text limited
\* to maxTitleLength: unchanged at or under the limit, cut to the limit and
\* ended with an ellipsis above it. Without a title none is drawn, and a
\* series without a label is plotted without one.
C11_TitleAndLabelsLimited ==
    p1Pc = "done" =>
        /\ titleDrawn.isNone = title.isNone
        /\ ~title.isNone =>
              IsLimited(title.text, titleDrawn.text, maxTitleLength)
        /\ Len(plotted) = Len(DrawnSeries)
        /\ \A j \in 1..Len(plotted) :
              LET i == DrawnSeries[j]
                  given == IF legendText.isNone THEN NoneText
                           ELSE legendText.labels[i]
              IN /\ plotted[j].isNone = given.isNone
                 /\ ~given.isNone =>
                       IsLimited(given.text, plotted[j].text, maxTitleLength)

C11_Witness ==
    /\ p1Pc = "done"
    /\ ~title.isNone /\ Len(title.text) > maxTitleLength
    /\ titleDrawn.text # title.text
    /\ \E j \in 1..Len(plotted) :
          /\ ~plotted[j].isNone
          /\ Len(plotted[j].text) = maxTitleLength + 3
          /\ maxTitleLength > 0
    /\ \E j \in 1..Len(plotted) :
          /\ ~plotted[j].isNone
          /\ Len(plotted[j].text) <= maxTitleLength

====
